---- MODULE Spec2Model ----
(***************************************************************************)
(* Model of the two munki condition scripts                                *)
(*   check-10.10-yosemite-compatibility.py     (release "A")               *)
(*   check-10.13-highsierra-compatibility.py   (release "B")               *)
(* One run of a script is one pass through its main(): every check queries *)
(* the host, logs one evidence line and returns a boolean; main combines   *)
(* the booleans, optionally merges the verdict into ConditionalItems.plist *)
(* and the process exits.  The plist is the only state that survives a     *)
(* run, so the model lets several runs (of either script) follow one       *)
(* another on the same store.                                              *)
(*                                                                         *)
(* Text that the code takes apart (version strings, sysctl output) is a    *)
(* sequence of one-character strings.  Identifiers that are only compared  *)
(* for equality (board ids, model ids) are TLA+ strings.  Byte counts are  *)
(* pairs <<GiB, remainder>> because 2 * 1024^3 does not fit TLC's integers.*)
(***************************************************************************)
EXTENDS Integers, Sequences, FiniteSets, TLC

VARIABLES
    release,                        \* which script this run executes: "A" or "B"
    update_munki_conditional_items, \* the script's configuration flag
    pc,                             \* position of the run inside main()
    facts,                          \* raw answers of the host queries made so far in this run
    frame,                          \* main()'s local variables assigned so far
    evidence,                       \* the lines logger() has printed in this run
    store,                          \* ConditionalItems.plist
    exit_status,                    \* <<>> while running, <<code>> once the process has exited
    runs                            \* number of runs started

vars == <<release, update_munki_conditional_items, pc, facts, frame, evidence,
          store, exit_status, runs>>

\* Number of script runs that follow one another on the same store.
MaxRuns == 2

(***************************************************************************)
(* Text helpers                                                            *)
(***************************************************************************)
Digits == <<"0", "1", "2", "3", "4", "5", "6", "7", "8", "9">>

isdigit(c) == \E d \in 1..10 : Digits[d] = c

DigitVal(c) == (CHOOSE d \in 1..10 : Digits[d] = c) - 1

\* int() of a non-empty string of decimal digits
RECURSIVE int_digits(_)
int_digits(s) ==
    IF s = <<>> THEN 0
    ELSE 10 * int_digits(SubSeq(s, 1, Len(s) - 1)) + DigitVal(s[Len(s)])

\* str() of a natural number
RECURSIVE str_nat(_)
str_nat(n) ==
    IF n < 10 THEN <<Digits[n + 1]>>
    ELSE str_nat(n \div 10) \o <<Digits[(n % 10) + 1]>>

\* '.'.join(map(str, components))
RECURSIVE dotted(_)
dotted(components) ==
    IF Len(components) = 1 THEN str_nat(components[1])
    ELSE str_nat(components[1]) \o <<".">> \o dotted(Tail(components))

\* length of the longest run of digits of s that starts at index i: the regex \d+
RECURSIVE DigitRun(_, _)
DigitRun(s, i) ==
    IF i <= Len(s) /\ isdigit(s[i]) THEN 1 + DigitRun(s, i + 1) ELSE 0

\* cmp() of two tuples of integers of the same length
RECURSIVE cmp_tuple(_, _)
cmp_tuple(a, b) ==
    IF a = <<>> THEN 0
    ELSE IF a[1] < b[1] THEN -1
    ELSE IF a[1] > b[1] THEN 1
    ELSE cmp_tuple(Tail(a), Tail(b))

(***************************************************************************)
(* distutils.version.StrictVersion, as both scripts use it                 *)
(***************************************************************************)
\* version_re = ^(\d+) \. (\d+) (\. (\d+))? ([ab](\d+))?$ matched against s,
\* group by group from the left.  n1 is the length of the major digits; p2, p3
\* and p4 are the positions after the minor, the patch and the pre-release tag.
\* The result holds the groups 1, 2, 4, 5 and 6 (an unmatched group is <<>>).
no_match == [matched |-> FALSE]

match_end(s, n1, p2, p3, p4) ==
    IF p4 = Len(s) + 1 \/ (p4 = Len(s) /\ s[p4] = "\n")
    THEN [matched        |-> TRUE,
          major          |-> SubSeq(s, 1, n1),
          minor          |-> SubSeq(s, n1 + 2, p2 - 1),
          patch          |-> IF p3 > p2 THEN SubSeq(s, p2 + 1, p3 - 1) ELSE <<>>,
          prerelease     |-> IF p4 > p3 THEN <<s[p3]>> ELSE <<>>,
          prerelease_num |-> IF p4 > p3 THEN SubSeq(s, p3 + 1, p4 - 1) ELSE <<>>]
    ELSE no_match

match_prerelease(s, n1, p2, p3) ==
    IF p3 <= Len(s) /\ s[p3] \in {"a", "b"} /\ DigitRun(s, p3 + 1) > 0
    THEN match_end(s, n1, p2, p3, p3 + 1 + DigitRun(s, p3 + 1))
    ELSE match_end(s, n1, p2, p3, p3)

match_patch(s, n1, p2) ==
    IF p2 <= Len(s) /\ s[p2] = "." /\ DigitRun(s, p2 + 1) > 0
    THEN match_prerelease(s, n1, p2, p2 + 1 + DigitRun(s, p2 + 1))
    ELSE match_prerelease(s, n1, p2, p2)

match_minor(s, n1) ==
    IF n1 > 0 /\ n1 + 1 <= Len(s) /\ s[n1 + 1] = "." /\ DigitRun(s, n1 + 2) > 0
    THEN match_patch(s, n1, n1 + 2 + DigitRun(s, n1 + 2))
    ELSE no_match

StrictVersion_match(s) == match_minor(s, DigitRun(s, 1))

\* StrictVersion(vstring) raises ValueError when the pattern does not match
StrictVersion_raises(vstring) == ~StrictVersion_match(vstring).matched

\* StrictVersion.parse: version is a triple, the patch defaulting to 0;
\* prerelease is (letter, number), or <<>> for None.
StrictVersion(vstring) ==
    LET m == StrictVersion_match(vstring)
    IN  [version    |-> IF m.patch # <<>>
                        THEN <<int_digits(m.major), int_digits(m.minor), int_digits(m.patch)>>
                        ELSE <<int_digits(m.major), int_digits(m.minor)>> \o <<0>>,
         prerelease |-> IF m.prerelease # <<>>
                        THEN <<IF m.prerelease[1] = "a" THEN 1 ELSE 2,
                               int_digits(m.prerelease_num)>>
                        ELSE <<>>]

\* StrictVersion.__cmp__
StrictVersion_cmp(self, other) ==
    LET compare == cmp_tuple(self.version, other.version)
    IN  IF compare # 0 THEN compare
        ELSE IF self.prerelease = <<>> /\ other.prerelease = <<>> THEN 0
        ELSE IF self.prerelease # <<>> /\ other.prerelease = <<>> THEN -1
        ELSE IF self.prerelease = <<>> /\ other.prerelease # <<>> THEN 1
        ELSE cmp_tuple(self.prerelease, other.prerelease)

\* mutant of StrictVersion_ge: > where the scripts compare with >=
StrictVersion_gt(a, b) == StrictVersion_cmp(a, b) > 0

\* a >= b on StrictVersion objects
StrictVersion_ge(a, b) == StrictVersion_cmp(a, b) >= 0

(***************************************************************************)
(* Configuration and constants of the scripts                              *)
(***************************************************************************)
\* "Set this to False if you don't want any output, just the exit codes"
verbose == TRUE

\* None, as it prints with %s.  get_board_id maps every text that does not
\* start with 'Mac' (this one included) to None.
None == "None"

GiB == 1024 * 1024 * 1024

\* a byte count given in MiB, as <<GiB, remainder in bytes>>
MiB(n) == <<n \div 1024, (n % 1024) * 1024 * 1024>>

\* minimum_memory = int(2048 * 1024 * 1024)
minimum_memory == MiB(2048)

\* mutant of platform_support_values_A, and the table the list was meant to be:
\* the comma after "Mac-F2218EC8" in place, so that it and "Mac-F2218FA9" are two
\* entries
platform_support_values_A_separated ==
    {"Mac-00BE6ED71E35EB86", "Mac-031AEE4D24BFF0B1", "Mac-031B6874CF7F642A",
     "Mac-189A3D4F975D5FFC", "Mac-27ADBB7B4CEE8E61", "Mac-2BD1B31983FE1663",
     "Mac-2E6FAB96566FE58C", "Mac-35C1E88140C3E6CF", "Mac-35C5E08120C7EEAF",
     "Mac-3CBD00234E554E41", "Mac-42FD25EABCABB274", "Mac-4B7AC7E43945597E",
     "Mac-4BC72D62AD45599E", "Mac-50619A408DB004DA", "Mac-66F35F19FE2A0D05",
     "Mac-6F01561E16C75D06", "Mac-742912EFDBEE19B3", "Mac-77EB7D7DAF985301",
     "Mac-7BA5B2794B2CDB12", "Mac-7DF21CB3ED6977E5", "Mac-7DF2A3B5E5D671ED",
     "Mac-81E3E92DD6088272", "Mac-8ED6AF5B48C039E1", "Mac-942452F5819B1C1B",
     "Mac-942459F5819B171B", "Mac-94245A3940C91C80", "Mac-94245B3640C91C81",
     "Mac-942B59F58194171B", "Mac-942B5BF58194151B", "Mac-942C5DF58193131B",
     "Mac-AFD8A9D944EA4843", "Mac-C08A6BB70A942AC2", "Mac-C3EC7CD22292981F",
     "Mac-F2208EC8", "Mac-F2218EA9", "Mac-F2218EC8", "Mac-F2218FA9", "Mac-F2218FC8",
     "Mac-F221BEC8", "Mac-F221DCC8", "Mac-F222BEC8", "Mac-F2238AC8", "Mac-F2238BAE",
     "Mac-F223BEC8", "Mac-F22586C8", "Mac-F22587A1", "Mac-F22587C8", "Mac-F22589C8",
     "Mac-F2268AC8", "Mac-F2268CC8", "Mac-F2268DAE", "Mac-F2268DC8", "Mac-F2268EC8",
     "Mac-F226BEC8", "Mac-F22788AA", "Mac-F227BEC8", "Mac-F22C86C8", "Mac-F22C89C8",
     "Mac-F22C8AC8", "Mac-F42386C8", "Mac-F42388C8", "Mac-F4238BC8", "Mac-F4238CC8",
     "Mac-F42C86C8", "Mac-F42C88C8", "Mac-F42C89C8", "Mac-F42D86A9", "Mac-F42D86C8",
     "Mac-F42D88C8", "Mac-F42D89A9", "Mac-F42D89C8", "Mac-F60DEB81FF30ACF6",
     "Mac-F65AE981FFA204ED", "Mac-FA842E06C61E91C5", "Mac-FC02E91DDD3FA6A4"}

\* platform_support_values of the Yosemite script, as Python reads the list:
\* adjacent string literals are concatenated.
platform_support_values_A ==
    {"Mac-00BE6ED71E35EB86", "Mac-031AEE4D24BFF0B1", "Mac-031B6874CF7F642A",
     "Mac-189A3D4F975D5FFC", "Mac-27ADBB7B4CEE8E61", "Mac-2BD1B31983FE1663",
     "Mac-2E6FAB96566FE58C", "Mac-35C1E88140C3E6CF", "Mac-35C5E08120C7EEAF",
     "Mac-3CBD00234E554E41", "Mac-42FD25EABCABB274", "Mac-4B7AC7E43945597E",
     "Mac-4BC72D62AD45599E", "Mac-50619A408DB004DA", "Mac-66F35F19FE2A0D05",
     "Mac-6F01561E16C75D06", "Mac-742912EFDBEE19B3", "Mac-77EB7D7DAF985301",
     "Mac-7BA5B2794B2CDB12", "Mac-7DF21CB3ED6977E5", "Mac-7DF2A3B5E5D671ED",
     "Mac-81E3E92DD6088272", "Mac-8ED6AF5B48C039E1", "Mac-942452F5819B1C1B",
     "Mac-942459F5819B171B", "Mac-94245A3940C91C80", "Mac-94245B3640C91C81",
     "Mac-942B59F58194171B", "Mac-942B5BF58194151B", "Mac-942C5DF58193131B",
     "Mac-AFD8A9D944EA4843", "Mac-C08A6BB70A942AC2", "Mac-C3EC7CD22292981F",
     "Mac-F2208EC8", "Mac-F2218EA9", "Mac-F2218EC8Mac-F2218FA9", "Mac-F2218FC8",
     "Mac-F221BEC8", "Mac-F221DCC8", "Mac-F222BEC8", "Mac-F2238AC8", "Mac-F2238BAE",
     "Mac-F223BEC8", "Mac-F22586C8", "Mac-F22587A1", "Mac-F22587C8", "Mac-F22589C8",
     "Mac-F2268AC8", "Mac-F2268CC8", "Mac-F2268DAE", "Mac-F2268DC8", "Mac-F2268EC8",
     "Mac-F226BEC8", "Mac-F22788AA", "Mac-F227BEC8", "Mac-F22C86C8", "Mac-F22C89C8",
     "Mac-F22C8AC8", "Mac-F42386C8", "Mac-F42388C8", "Mac-F4238BC8", "Mac-F4238CC8",
     "Mac-F42C86C8", "Mac-F42C88C8", "Mac-F42C89C8", "Mac-F42D86A9", "Mac-F42D86C8",
     "Mac-F42D88C8", "Mac-F42D89A9", "Mac-F42D89C8", "Mac-F60DEB81FF30ACF6",
     "Mac-F65AE981FFA204ED", "Mac-FA842E06C61E91C5", "Mac-FC02E91DDD3FA6A4"}

\* platform_support_values of the High Sierra script
platform_support_values_B ==
    {"Mac-00BE6ED71E35EB86", "Mac-031AEE4D24BFF0B1", "Mac-031B6874CF7F642A",
     "Mac-06F11F11946D27C5", "Mac-06F11FD93F0323C5", "Mac-189A3D4F975D5FFC",
     "Mac-27ADBB7B4CEE8E61", "Mac-2BD1B31983FE1663", "Mac-2E6FAB96566FE58C",
     "Mac-35C1E88140C3E6CF", "Mac-35C5E08120C7EEAF", "Mac-3CBD00234E554E41",
     "Mac-42FD25EABCABB274", "Mac-473D31EABEB93F9B", "Mac-4B682C642B45593E",
     "Mac-4B7AC7E43945597E", "Mac-4BC72D62AD45599E", "Mac-50619A408DB004DA",
     "Mac-551B86E5744E2388", "Mac-65CE76090165799A", "Mac-66E35819EE2D0D05",
     "Mac-66F35F19FE2A0D05", "Mac-6F01561E16C75D06", "Mac-742912EFDBEE19B3",
     "Mac-77EB7D7DAF985301", "Mac-77F17D7DA9285301", "Mac-7BA5B2794B2CDB12",
     "Mac-7BA5B2D9E42DDD94", "Mac-7DF21CB3ED6977E5", "Mac-7DF2A3B5E5D671ED",
     "Mac-81E3E92DD6088272", "Mac-8ED6AF5B48C039E1", "Mac-90BE64C3CB5A9AEB",
     "Mac-937CB26E2E02BB01", "Mac-942452F5819B1C1B", "Mac-942459F5819B171B",
     "Mac-94245A3940C91C80", "Mac-94245B3640C91C81", "Mac-942B59F58194171B",
     "Mac-942B5BF58194151B", "Mac-942C5DF58193131B", "Mac-9AE82516C7C6B903",
     "Mac-9F18E312C5C2BF0B", "Mac-A369DDC4E67F1C45", "Mac-A5C67F76ED83108C",
     "Mac-AFD8A9D944EA4843", "Mac-B4831CEBD52A0C4C", "Mac-B809C3757DA9BB8D",
     "Mac-BE088AF8C5EB4FA2", "Mac-BE0E8AC46FE800CC", "Mac-C08A6BB70A942AC2",
     "Mac-C3EC7CD22292981F", "Mac-CAD6701F7CEA0921", "Mac-CF21D135A7D34AA6",
     "Mac-DB15BD556843C820", "Mac-E43C1C25D4880AD6", "Mac-EE2EBD4B90B839A8",
     "Mac-F2208EC8", "Mac-F221BEC8", "Mac-F221DCC8", "Mac-F222BEC8", "Mac-F2238AC8",
     "Mac-F2238BAE", "Mac-F22586C8", "Mac-F22589C8", "Mac-F2268CC8", "Mac-F2268DAE",
     "Mac-F2268DC8", "Mac-F22C89C8", "Mac-F22C8AC8", "Mac-F305150B0C7DEEEF",
     "Mac-F60DEB81FF30ACF6", "Mac-F65AE981FFA204ED", "Mac-FA842E06C61E91C5",
     "Mac-FC02E91DDD3FA6A4", "Mac-FFE5EF870D7BA81A"}

non_supported_models ==
    {"iMac4,1", "iMac4,2", "iMac5,1", "iMac5,2", "iMac6,1", "iMac7,1", "iMac8,1",
     "iMac9,1", "MacBook1,1", "MacBook2,1", "MacBook3,1", "MacBook4,1", "MacBook5,1",
     "MacBook5,2", "MacBookAir1,1", "MacBookAir2,1", "MacBookPro1,1", "MacBookPro1,2",
     "MacBookPro2,1", "MacBookPro2,2", "MacBookPro3,1", "MacBookPro4,1",
     "MacBookPro5,1", "MacBookPro5,2", "MacBookPro5,3", "MacBookPro5,4",
     "MacBookPro5,5", "Macmini1,1", "Macmini2,1", "Macmini3,1", "MacPro1,1",
     "MacPro2,1", "MacPro3,1", "MacPro4,1", "Xserve1,1", "Xserve2,1", "Xserve3,1"}

\* the key each script writes into ConditionalItems.plist
supported_key(r) == IF r = "A" THEN "yosemite_supported" ELSE "high_sierra_supported"

(***************************************************************************)
(* What the host queries can answer                                        *)
(***************************************************************************)
\* ioreg | grep board-id, after the re.sub and the strip of get_board_id
BoardIdOutputs ==
    {"", "Mac-F2268DC8", "mac-f2268dc8", "Mac-F2218FA9", "Mac-06F11F11946D27C5",
     "Mac-FFFFFFFFFFFFFFFF"}

\* the texts above that start with 'Mac'
startswith_Mac(text) ==
    text \in platform_support_values_A \cup platform_support_values_B
             \cup {"Mac-F2218EC8", "Mac-F2218FA9", "Mac-FFFFFFFFFFFFFFFF"}

\* sysctl -n machdep.cpu.features, split on whitespace
CpuFeaturesOutputs == {<<"FPU", "VME", "SSE">>, <<"FPU", "VMM", "SSE">>}

\* sysctl -n hw.cpu64bit_capable
Cpu64bitOutputs == {<<>>, <<"0", "\n">>, <<"1", "\n">>}

\* sysctl -n hw.memsize: the byte count it prints, or <<>> when it prints nothing
MemsizeOutputs == {<<>>, <<1, GiB - 1>>, <<2, 0>>, <<8, 0>>}

\* sysctl -n hw.model, stripped
ModelOutputs == {"", "iMac4,1", "MacBookPro11,1"}

Minors == {6, 8, 10, 13}

Patches == {5, 6, 10}

\* ProductVersion of SystemVersion.plist
ProductVersionOutputs ==
    {dotted(<<10, m>>) : m \in Minors}
    \cup {dotted(<<10, m, p>>) : m \in Minors, p \in Patches}
    \cup {<<"1", "0", ".", "8", ".", "0">>,
          <<"1", "0", ".", "9", ".", "5">>,
          <<"1", "0">>,
          <<"1", "0", ".", "x">>,
          <<"1", "0", ".", "9", "a", "1">>,
          <<"1", "0", ".", "9", ".", "5", ".", "1">>}

\* ConditionalItems.plist before the first run: no file, a file that is not a
\* readable plist, or a plist holding another tool's condition
absent_store == [kind |-> "absent", dict |-> <<>>]

corrupt_store == [kind |-> "corrupt", dict |-> <<>>]

plist_store(d) == [kind |-> "plist", dict |-> d]

InitialStores ==
    {absent_store, corrupt_store, plist_store([k \in {"machine_type"} |-> "laptop"])}

(***************************************************************************)
(* The checks.  Each returns [raised, ret, log]: whether it raised, the    *)
(* boolean it returns, and the lines it logs.                              *)
(***************************************************************************)
\* a printed line is <<message, status, info>>; status is the tuple of the parts
\* its format string puts together
logger(message, status, info) ==
    IF verbose THEN << <<message, status, info>> >> ELSE <<>>

returns(value, log) == [raised |-> FALSE, ret |-> value, log |-> log]

raises == [raised |-> TRUE, ret |-> FALSE, log |-> <<>>]

\* "\"%s\" is not supported" % x
not_supported(x) == <<"\"", x, "\" is not supported">>

is_virtual_machine(features) ==
    IF \E i \in 1..Len(features) : features[i] = "VMM"
    THEN returns(TRUE, logger("Board ID", <<"Virtual machine">>, "OK"))
    ELSE returns(FALSE, <<>>)

get_board_id(board_id) ==
    IF startswith_Mac(board_id) THEN board_id ELSE None

\* mutant of is_supported_board_id_A: the virtual machine test left out
is_supported_board_id_A_table_only(features, text) ==
    IF get_board_id(text) \in platform_support_values_A
    THEN returns(TRUE, logger("Board ID", <<get_board_id(text)>>, "OK"))
    ELSE returns(FALSE, logger("Board ID", not_supported(get_board_id(text)), "Failed"))

\* Yosemite: the virtual machine test comes first and ends the check
is_supported_board_id_A(features, text) ==
    LET vm       == is_virtual_machine(features)
        board_id == get_board_id(text)
    IN  IF vm.ret THEN returns(TRUE, vm.log)
        ELSE IF board_id \in platform_support_values_A
        THEN returns(TRUE, logger("Board ID", <<board_id>>, "OK"))
        ELSE returns(FALSE, logger("Board ID", not_supported(board_id), "Failed"))

\* High Sierra: the table only
is_supported_board_id_B(text) ==
    LET board_id == get_board_id(text)
    IN  IF board_id \in platform_support_values_B
        THEN returns(TRUE, logger("Board ID", <<board_id>>, "OK"))
        ELSE returns(FALSE, logger("Board ID", not_supported(board_id), "Failed"))

\* mutant of is_supported_model: an empty model id counted as not supported
is_supported_model_empty_fails(current_model) ==
    IF current_model \in non_supported_models \cup {""}
    THEN returns(FALSE, logger("Model", not_supported(current_model), "Failed"))
    ELSE returns(TRUE, logger("Model", <<current_model>>, "OK"))

is_supported_model(current_model) ==
    IF current_model \in non_supported_models
    THEN returns(FALSE, logger("Model", not_supported(current_model), "Failed"))
    ELSE returns(TRUE, logger("Model", <<current_model>>, "OK"))

\* bool(results): a string is true when it is not empty
is_64bit_capable(results) ==
    IF results # <<>>
    THEN returns(TRUE, logger("CPU", <<"64 bit capable">>, "OK"))
    ELSE returns(FALSE, logger("CPU", <<"not 64 bit capable">>, "Failed"))

\* mutant of has_required_amount_of_memory: > where the script compares with >=
has_more_than_required_memory(results) ==
    IF results = <<>> THEN raises
    ELSE IF cmp_tuple(results, minimum_memory) > 0
    THEN returns(TRUE, logger("Memory",
             <<results[1], " GB physical memory installed">>, "OK"))
    ELSE returns(FALSE, logger("Memory",
             <<results[1], " GB installed, 2 GB required">>, "Failed"))

\* int(results) raises ValueError on empty output
has_required_amount_of_memory(results) ==
    IF results = <<>> THEN raises
    ELSE LET actual_memory           == results
             actual_memory_gigabytes == actual_memory[1]
         IN  IF cmp_tuple(actual_memory, minimum_memory) >= 0
             THEN returns(TRUE, logger("Memory",
                      <<actual_memory_gigabytes, " GB physical memory installed">>, "OK"))
             ELSE returns(FALSE, logger("Memory",
                      <<actual_memory_gigabytes, " GB installed, 2 GB required">>, "Failed"))

\* mutant of system_version_check: a version StrictVersion rejects is caught
\* and reported as a failed check
system_version_check_silent(product_version, too_new, oldest) ==
    IF StrictVersion_raises(product_version)
    THEN returns(FALSE, logger("System", <<"Mac OS X", product_version>>, "Failed"))
    ELSE IF StrictVersion_ge(StrictVersion(product_version), StrictVersion(too_new))
    THEN returns(FALSE, logger("System", <<"Mac OS X", product_version>>, "Failed"))
    ELSE IF StrictVersion_ge(StrictVersion(product_version), StrictVersion(oldest))
    THEN returns(TRUE, logger("System", <<"Mac OS X", product_version>>, "OK"))
    ELSE returns(FALSE, logger("System", <<"Mac OS X", product_version>>, "Failed"))

\* the shared shape of is_system_version_supported: too new, then old enough
system_version_check(product_version, too_new, oldest) ==
    IF StrictVersion_raises(product_version) THEN raises
    ELSE IF StrictVersion_ge(StrictVersion(product_version), StrictVersion(too_new))
    THEN returns(FALSE, logger("System", <<"Mac OS X", product_version>>, "Failed"))
    ELSE IF StrictVersion_ge(StrictVersion(product_version), StrictVersion(oldest))
    THEN returns(TRUE, logger("System", <<"Mac OS X", product_version>>, "OK"))
    ELSE returns(FALSE, logger("System", <<"Mac OS X", product_version>>, "Failed"))

is_system_version_supported_A(product_version) ==
    system_version_check(product_version, dotted(<<10, 10>>), dotted(<<10, 6, 6>>))

is_system_version_supported_B(product_version) ==
    system_version_check(product_version, dotted(<<10, 13>>), dotted(<<10, 8>>))

(***************************************************************************)
(* The verdict and its persistence                                         *)
(***************************************************************************)
\* mutant of main_verdict_A: the CPU result left out of the conjunction
main_verdict_A_without_cpu(board_id_passed, memory_passed, cpu_passed, system_version_passed) ==
    IF board_id_passed /\ memory_passed /\ system_version_passed THEN 0 ELSE 1

\* mutant of main_verdict_B: the virtual machine branch left out
main_verdict_B_checks_only(vm, model_passed, board_id_passed, system_version_passed) ==
    IF model_passed /\ board_id_passed /\ system_version_passed THEN 0 ELSE 1

\* Yosemite main: the exit code computed from the four results
main_verdict_A(board_id_passed, memory_passed, cpu_passed, system_version_passed) ==
    IF board_id_passed /\ memory_passed /\ cpu_passed /\ system_version_passed
    THEN 0 ELSE 1

\* High Sierra main: a virtual machine is supported whatever the checks said
main_verdict_B(vm, model_passed, board_id_passed, system_version_passed) ==
    IF vm THEN 0
    ELSE IF model_passed /\ board_id_passed /\ system_version_passed THEN 0
    ELSE 1

\* {'<release>_supported': True} for exit code 0, False for 1
supported_dict(r, code) == [k \in {supported_key(r)} |-> code = 0]

\* mutant of merge_items: the items added in the other order, the existing one wins
merge_items_existing_wins(existing_dict, dictionary) ==
    [k \in DOMAIN existing_dict \cup DOMAIN dictionary |->
        IF k \in DOMAIN existing_dict THEN existing_dict[k] ELSE dictionary[k]]

\* dict(existing_dict.items() + dictionary.items()): the later item wins
merge_items(existing_dict, dictionary) ==
    [k \in DOMAIN existing_dict \cup DOMAIN dictionary |->
        IF k \in DOMAIN dictionary THEN dictionary[k] ELSE existing_dict[k]]

\* append_conditional_items up to its writePlist: the mapping it is about to
\* write, or a raise when the existing file cannot be read as a plist
output_dict(current, dictionary) ==
    IF current.kind = "absent" THEN [raised |-> FALSE, dict |-> dictionary]
    ELSE IF current.kind = "corrupt" THEN [raised |-> TRUE, dict |-> <<>>]
    ELSE [raised |-> FALSE, dict |-> merge_items(current.dict, dictionary)]

\* the condition guarding append_conditional_items in main
persistence_enabled(r, munki, gruntwork, flag) ==
    IF r = "A" THEN munki /\ flag ELSE (munki \/ gruntwork) /\ flag

(***************************************************************************)
(* One run of a script                                                     *)
(***************************************************************************)
\* f with key k set to v
Ext(f, k, v) == [x \in DOMAIN f \cup {k} |-> IF x = k THEN v ELSE f[x]]

supported_var(r) == IF r = "A" THEN "yosemite_supported" ELSE "high_sierra_supported"

dict_var(r) == supported_var(r) \o "_dict"

\* the first check main runs
first_pc(r) == IF r = "A" THEN "board" ELSE "model"

\* main's frame on entry: the verdict dictionary starts empty
entry_frame(r) == [k \in {dict_var(r)} |-> <<>>]

\* an uncaught exception leaves main: the interpreter prints the traceback and
\* the process ends with status 1; sys.exit(main()) is never reached
Abort ==
    /\ pc' = "aborted"
    /\ exit_status' = <<1>>

\* a check returned: its lines are printed, its result is bound to a local
Bind(name, result, next) ==
    /\ frame' = Ext(frame, name, result.ret)
    /\ evidence' = evidence \o result.log
    /\ pc' = next
    /\ exit_status' = exit_status

\* a check at position `at` of main: answered is what the host has answered
\* once the check has made its queries
Check(at, answered, name, result, next) ==
    /\ pc = at
    /\ facts' = answered
    /\ IF result.raised
       THEN Abort /\ UNCHANGED <<frame, evidence>>
       ELSE Bind(name, result, next)
    /\ UNCHANGED <<release, update_munki_conditional_items, store, runs>>

\* The first run.  update_munki_conditional_items is the setting of the scripts'
\* configuration block ("Set this to True if you want to add ..."): Yosemite
\* ships with False, High Sierra with True, and an administrator may set either.
Init ==
    /\ release \in {"A", "B"}
    /\ update_munki_conditional_items \in BOOLEAN
    /\ pc = first_pc(release)
    /\ facts = <<>>
    /\ frame = entry_frame(release)
    /\ evidence = <<>>
    /\ store \in InitialStores
    /\ exit_status = <<>>
    /\ runs = 1

\* Yosemite: board_id_passed = is_supported_board_id().  The board id is only
\* queried when the host is not a virtual machine.
BoardCheckA ==
    /\ release = "A"
    /\ \E features \in CpuFeaturesOutputs, text \in BoardIdOutputs :
          Check("board",
                IF is_virtual_machine(features).ret
                THEN Ext(facts, "cpu_features", features)
                ELSE Ext(Ext(facts, "cpu_features", features), "board", text),
                "board_id_passed", is_supported_board_id_A(features, text), "memory")

\* Yosemite: memory_passed = has_required_amount_of_memory()
MemoryCheck ==
    /\ release = "A"
    /\ \E results \in MemsizeOutputs :
          Check("memory", Ext(facts, "memsize", results), "memory_passed",
                has_required_amount_of_memory(results), "cpu")

\* Yosemite: cpu_passed = is_64bit_capable()
CpuCheck ==
    /\ release = "A"
    /\ \E results \in Cpu64bitOutputs :
          Check("cpu", Ext(facts, "cpu64bit_capable", results), "cpu_passed",
                is_64bit_capable(results), "version")

\* Yosemite: system_version_passed = is_system_version_supported()
VersionCheckA ==
    /\ release = "A"
    /\ \E product_version \in ProductVersionOutputs :
          Check("version", Ext(facts, "ProductVersion", product_version),
                "system_version_passed",
                is_system_version_supported_A(product_version), "verdict")

\* Yosemite: the if/else that sets yosemite_supported and its dictionary
VerdictA ==
    /\ release = "A"
    /\ pc = "verdict"
    /\ LET code == main_verdict_A(frame["board_id_passed"], frame["memory_passed"],
                                  frame["cpu_passed"], frame["system_version_passed"])
       IN  frame' = Ext(Ext(frame, supported_var("A"), code),
                        dict_var("A"), supported_dict("A", code))
    /\ pc' = "persist"
    /\ UNCHANGED <<release, update_munki_conditional_items, facts, evidence, store,
                   exit_status, runs>>

\* High Sierra: model_passed = is_supported_model()
ModelCheck ==
    /\ release = "B"
    /\ \E current_model \in ModelOutputs :
          Check("model", Ext(facts, "model", current_model), "model_passed",
                is_supported_model(current_model), "board")

\* High Sierra: board_id_passed = is_supported_board_id()
BoardCheckB ==
    /\ release = "B"
    /\ \E text \in BoardIdOutputs :
          Check("board", Ext(facts, "board", text), "board_id_passed",
                is_supported_board_id_B(text), "version")

\* High Sierra: system_version_passed = is_system_version_supported()
VersionCheckB ==
    /\ release = "B"
    /\ \E product_version \in ProductVersionOutputs :
          Check("version", Ext(facts, "ProductVersion", product_version),
                "system_version_passed",
                is_system_version_supported_B(product_version), "verdict")

\* High Sierra: the if/elif/else that starts with is_virtual_machine()
VerdictB ==
    /\ release = "B"
    /\ pc = "verdict"
    /\ \E features \in CpuFeaturesOutputs :
          LET vm   == is_virtual_machine(features)
              code == main_verdict_B(vm.ret, frame["model_passed"],
                                     frame["board_id_passed"],
                                     frame["system_version_passed"])
          IN  /\ facts' = Ext(facts, "cpu_features", features)
              /\ evidence' = evidence \o vm.log
              /\ frame' = Ext(Ext(frame, supported_var("B"), code),
                              dict_var("B"), supported_dict("B", code))
    /\ pc' = "persist"
    /\ UNCHANGED <<release, update_munki_conditional_items, store, exit_status, runs>>

\* main returns its verdict and sys.exit passes it on as the exit status
Return ==
    /\ pc' = "done"
    /\ exit_status' = <<frame[supported_var(release)]>>

\* Both scripts: the condition that guards append_conditional_items; main
\* returns at once when it is false.  munki, gruntwork: what the pkgutil
\* queries answer.
Persist ==
    /\ pc = "persist"
    /\ \E munki \in BOOLEAN, gruntwork \in BOOLEAN :
          IF persistence_enabled(release, munki, gruntwork, update_munki_conditional_items)
          THEN pc' = "append" /\ exit_status' = exit_status
          ELSE Return
    /\ UNCHANGED <<release, update_munki_conditional_items, facts, frame, evidence,
                   store, runs>>

\* append_conditional_items(<verdict dictionary>), then main returns.
\* writable: whether writePlist can open the file for writing.
AppendConditionalItems ==
    /\ pc = "append"
    /\ \E writable \in BOOLEAN :
          LET out == output_dict(store, frame[dict_var(release)])
          IN  IF out.raised \/ ~writable
              THEN Abort /\ store' = store
              ELSE Return /\ store' = plist_store(out.dict)
    /\ UNCHANGED <<release, update_munki_conditional_items, facts, frame, evidence, runs>>

\* the script (either one, as configured) is run again on the same host
StartRun ==
    /\ pc \in {"done", "aborted"}
    /\ runs < MaxRuns
    /\ \E r \in {"A", "B"}, flag \in BOOLEAN :
          /\ release' = r
          /\ update_munki_conditional_items' = flag
          /\ pc' = first_pc(r)
          /\ frame' = entry_frame(r)
    /\ facts' = <<>>
    /\ evidence' = <<>>
    /\ exit_status' = <<>>
    /\ runs' = runs + 1
    /\ store' = store

Next ==
    \/ BoardCheckA
    \/ MemoryCheck
    \/ CpuCheck
    \/ VersionCheckA
    \/ VerdictA
    \/ ModelCheck
    \/ BoardCheckB
    \/ VersionCheckB
    \/ VerdictB
    \/ Persist
    \/ AppendConditionalItems
    \/ StartRun

Spec == Init /\ [][Next]_vars

\* The Yosemite board-id check on its own, tried on every id of the table (as
\* it is written and as it was meant) besides the answers above.
BoardIdTexts ==
    BoardIdOutputs \cup platform_support_values_A \cup platform_support_values_A_separated

InitBoardIds == Init /\ release = "A"

BoardCheckA_EveryId ==
    /\ release = "A"
    /\ \E features \in CpuFeaturesOutputs, text \in BoardIdTexts :
          Check("board",
                IF is_virtual_machine(features).ret
                THEN Ext(facts, "cpu_features", features)
                ELSE Ext(Ext(facts, "cpu_features", features), "board", text),
                "board_id_passed", is_supported_board_id_A(features, text), "memory")

SpecBoardIds == InitBoardIds /\ [][BoardCheckA_EveryId]_vars

(***************************************************************************)
(* Properties                                                              *)
(***************************************************************************)
Assigned(name) == name \in DOMAIN frame

Answered(query) == query \in DOMAIN facts

Logged(message, status, info) ==
    \E i \in 1..Len(evidence) :
        /\ evidence[i][1] = message
        /\ evidence[i][3] = info
        /\ evidence[i][2] = status

IsVM == \E i \in 1..Len(facts["cpu_features"]) : facts["cpu_features"][i] = "VMM"

\* --- dotted versions as the specification reads them: the integers between
\* --- the dots, compared position by position, a missing position being 0
RECURSIVE SplitDots(_)
SplitDots(s) ==
    IF \A i \in 1..Len(s) : s[i] # "." THEN <<s>>
    ELSE LET d == CHOOSE i \in 1..Len(s) : s[i] = "." /\ \A j \in 1..(i - 1) : s[j] # "."
         IN  <<SubSeq(s, 1, d - 1)>> \o SplitDots(SubSeq(s, d + 1, Len(s)))

AllDigits(seg) == seg # <<>> /\ \A i \in 1..Len(seg) : isdigit(seg[i])

IsDottedIntegers(s) ==
    LET parts == SplitDots(s)
    IN  \A i \in 1..Len(parts) : AllDigits(parts[i])

\* a dotted version of two or three components: a version triple
IsVersionTriple(s) ==
    LET parts == SplitDots(s)
    IN  Len(parts) \in {2, 3} /\ \A i \in 1..Len(parts) : AllDigits(parts[i])

Components(s) ==
    LET parts == SplitDots(s)
    IN  [i \in 1..Len(parts) |-> int_digits(parts[i])]

At(c, i) == IF i <= Len(c) THEN c[i] ELSE 0

\* a < b component-wise
Before(a, b) ==
    \E i \in 1..4 :
        /\ At(a, i) < At(b, i)
        /\ \A j \in 1..(i - 1) : At(a, j) = At(b, j)

\* lo <= v < hi component-wise
Within(v, lo, hi) ==
    LET c == Components(v)
    IN  ~Before(c, lo) /\ Before(c, hi)

\* C1: Yosemite.  Once main has computed its verdict, the exit code it holds is
\* 0, and yosemite_supported is True, exactly when the board-id, memory, CPU and
\* system-version checks all passed; a single failed check makes it 1 and False;
\* and the code main returns is the process's exit status.
C1_YosemiteVerdictIsConjunction ==
    (release = "A" /\ Assigned("yosemite_supported")) =>
        LET all_passed == /\ frame["board_id_passed"]
                          /\ frame["memory_passed"]
                          /\ frame["cpu_passed"]
                          /\ frame["system_version_passed"]
        IN  /\ frame["yosemite_supported"] \in {0, 1}
            /\ (frame["yosemite_supported"] = 0) <=> all_passed
            /\ frame["yosemite_supported_dict"]["yosemite_supported"] = all_passed
            /\ \A check \in {"board_id_passed", "memory_passed", "cpu_passed",
                             "system_version_passed"} :
                  ~frame[check] => frame["yosemite_supported"] = 1
            /\ pc = "done" => (exit_status = <<0>> <=> all_passed)
            /\ pc = "done" => (exit_status = <<1>> <=> ~all_passed)

\* C1 witness: a finished Yosemite run in which only the memory check failed
C1_Witness ==
    /\ release = "A" /\ pc = "done" /\ exit_status = <<1>>
    /\ frame["board_id_passed"] /\ frame["cpu_passed"] /\ frame["system_version_passed"]
    /\ ~frame["memory_passed"]
    /\ frame["yosemite_supported_dict"]["yosemite_supported"] = FALSE

C3_PersistenceFailureKeepsExitCode ==
    (pc = "aborted" /\ Assigned(supported_var(release))) =>
        exit_status = <<frame[supported_var(release)]>>

\* C4: a call of append_conditional_items that returns leaves every other key
\* of the existing plist with its value, adds no key but the script's own,
\* sets that key to the value passed, and writes exactly the passed mapping
\* when there was no file; no other step touches the file.
C4_MergeIsNonDestructive ==
    [][ /\ (pc = "append" /\ pc' = "done") =>
              LET key    == supported_key(release)
                  passed == frame[dict_var(release)]
              IN  /\ store'.kind = "plist"
                  /\ key \in DOMAIN store'.dict
                  /\ store'.dict[key] = passed[key]
                  /\ store.kind = "plist" =>
                        /\ DOMAIN store'.dict = DOMAIN store.dict \cup {key}
                        /\ \A k \in DOMAIN store.dict \ {key} :
                              store'.dict[k] = store.dict[k]
                  /\ store.kind = "absent" => store'.dict = passed
        /\ ~(pc = "append" /\ pc' = "done") => store' = store
      ]_vars

\* C4 witness: after a Yosemite and a High Sierra run the plist holds both
\* verdict keys next to the condition that was there before
C4_Witness ==
    /\ pc = "done" /\ store.kind = "plist"
    /\ DOMAIN store.dict = {"machine_type", "yosemite_supported", "high_sierra_supported"}
    /\ store.dict["machine_type"] = "laptop"
    /\ store.dict[supported_key(release)] = (frame[supported_var(release)] = 0)

\* C5: on a version triple the system-version check returns, and passes exactly
\* when min <= version < max component-wise, with (10.6.6, 10.10) for Yosemite
\* and (10.8, 10.13) for High Sierra; 10.6.10 and 10.9.5 pass Yosemite, 10.6.5
\* and 10.10 fail it, 10.8 and 10.8.0 pass High Sierra and 10.13 fails it.
C5_VersionWindow ==
    (Answered("ProductVersion") /\ IsVersionTriple(facts["ProductVersion"])) =>
        LET v == facts["ProductVersion"]
        IN  /\ Assigned("system_version_passed")
            /\ release = "A" =>
                  /\ frame["system_version_passed"] <=> Within(v, <<10, 6, 6>>, <<10, 10>>)
                  /\ v \in {dotted(<<10, 6, 10>>), dotted(<<10, 9, 5>>)}
                        => frame["system_version_passed"]
                  /\ v \in {dotted(<<10, 6, 5>>), dotted(<<10, 10>>)}
                        => ~frame["system_version_passed"]
            /\ release = "B" =>
                  /\ frame["system_version_passed"] <=> Within(v, <<10, 8>>, <<10, 13>>)
                  /\ v \in {dotted(<<10, 8>>), dotted(<<10, 8, 0>>)}
                        => frame["system_version_passed"]
                  /\ v = dotted(<<10, 13>>) => ~frame["system_version_passed"]

\* C5 witness: Yosemite has accepted 10.6.10
C5_Witness ==
    /\ release = "A" /\ Answered("ProductVersion")
    /\ facts["ProductVersion"] = <<"1", "0", ".", "6", ".", "1", "0">>
    /\ Assigned("system_version_passed") /\ frame["system_version_passed"]

\* C6 (as claimed): the CPU check passes exactly when hw.cpu64bit_capable
\* reports 1, and a host reporting 0 gets the verdict Unsupported.
C6_CpuCheckFollowsFlag ==
    Assigned("cpu_passed") =>
        /\ frame["cpu_passed"] <=> facts["cpu64bit_capable"] = <<"1", "\n">>
        /\ (Assigned("yosemite_supported") /\ facts["cpu64bit_capable"] = <<"0", "\n">>)
              => frame["yosemite_supported"] = 1

BoardIdAbsent == Answered("board") /\ ~startswith_Mac(facts["board"])

\* the board id part shared by the claimed and the amended C7: an absent or
\* malformed board id fails the table lookup with a "None" Failed line, the
\* check returns, and a verdict computed for a host that is no virtual machine
\* is Unsupported
AbsentBoardIdFails ==
    BoardIdAbsent =>
        /\ Assigned("board_id_passed") /\ ~frame["board_id_passed"]
        /\ Logged("Board ID", <<"\"", "None", "\" is not supported">>, "Failed")
        /\ (Assigned(supported_var(release)) /\ ~IsVM) => frame[supported_var(release)] = 1

C8_NonNumericVersionAborts ==
    (Answered("ProductVersion") /\ ~IsDottedIntegers(facts["ProductVersion"])) =>
        /\ pc = "aborted"
        /\ ~Assigned("system_version_passed")
        /\ ~Assigned(supported_var(release))

\* the syntax StrictVersion accepts, read off the version string: a version
\* triple, optionally followed by a or b and a number
HasTag(s, i) == s[i] \in {"a", "b"} /\ AllDigits(SubSeq(s, i + 1, Len(s)))

StrictSyntax(s) ==
    \/ IsVersionTriple(s)
    \/ \E i \in 1..Len(s) : HasTag(s, i) /\ IsVersionTriple(SubSeq(s, 1, i - 1))

\* C8 (amended): a version string outside StrictVersion's syntax aborts the run
\* in the version check: nothing is logged or bound, no verdict is computed,
\* the plist is not written then or later in the run, and the process exits
\* with the interpreter's status 1.  A string inside the syntax, a tagged one
\* such as 10.9a1 included, is compared and the run goes on to the verdict.
C8_RejectedVersionAborts ==
    [][ /\ (pc = "version" /\ ~StrictSyntax(facts'["ProductVersion"])) =>
              /\ pc' = "aborted" /\ exit_status' = <<1>>
              /\ frame' = frame /\ evidence' = evidence /\ store' = store
        /\ (pc = "version" /\ StrictSyntax(facts'["ProductVersion"])) =>
              /\ pc' = "verdict"
              /\ "system_version_passed" \in DOMAIN frame'
        /\ pc = "aborted" => (store' = store /\ pc' = first_pc(release'))
      ]_vars

\* C8 witness: a run that 10.x has aborted, with no verdict
C8_Witness ==
    /\ pc = "aborted" /\ exit_status = <<1>>
    /\ Answered("ProductVersion") /\ facts["ProductVersion"] = <<"1", "0", ".", "x">>
    /\ ~Assigned("system_version_passed")
    /\ ~Assigned(supported_var(release))

\* C9: the Yosemite board-id check passes exactly when the host is a virtual
\* machine or its board id is a non-empty member of the table, letter case
\* included; a Mac-prefixed id that is not in the table fails with a Failed line
\* that quotes the id.
C9_YosemiteBoardCheck ==
    (release = "A" /\ Assigned("board_id_passed")) =>
        /\ frame["board_id_passed"] <=>
              \/ IsVM
              \/ facts["board"] # "" /\ facts["board"] \in platform_support_values_A
        /\ (~IsVM /\ facts["board"] = "mac-f2268dc8") => ~frame["board_id_passed"]
        /\ (~IsVM /\ startswith_Mac(facts["board"])
                  /\ facts["board"] \notin platform_support_values_A) =>
              /\ ~frame["board_id_passed"]
              /\ Logged("Board ID", <<"\"", facts["board"], "\" is not supported">>, "Failed")

\* C9 witness: Yosemite has rejected a Mac-prefixed id that is not in the table
C9_Witness ==
    /\ release = "A" /\ Assigned("board_id_passed") /\ ~frame["board_id_passed"]
    /\ ~IsVM /\ facts["board"] = "Mac-FFFFFFFFFFFFFFFF"

\* C10: the memory check passes exactly when hw.memsize is at least 2 GiB:
\* 2 * 1024^3 bytes pass, one byte less fails.
C10_MemoryThreshold ==
    Assigned("memory_passed") =>
        /\ frame["memory_passed"] <=> facts["memsize"][1] >= 2
        /\ facts["memsize"] = <<2, 0>> => frame["memory_passed"]
        /\ facts["memsize"] = <<1, GiB - 1>> => ~frame["memory_passed"]

\* C10 witness: exactly 2 GiB has passed
C10_Witness ==
    /\ Assigned("memory_passed") /\ frame["memory_passed"]
    /\ facts["memsize"] = <<2, 0>>

\* whether the Yosemite board-id check turns the id away on the host whose CPU
\* features were queried
Rejected(id) == ~is_supported_board_id_A(facts["cpu_features"], id).ret

\* the check has run on a host that is no virtual machine and whose board id is
\* one the table was meant to hold
CheckedIntendedId ==
    /\ release = "A" /\ Assigned("board_id_passed")
    /\ ~IsVM
    /\ facts["board"] \in platform_support_values_A_separated

\* C11 (as claimed): the table holds the entry made of "Mac-F2218EC8" and
\* "Mac-F2218FA9" run together, and exactly one id of the intended table is
\* rejected on a host that is no virtual machine, every other one accepted.
C11_ExactlyOneIntendedIdRejected ==
    CheckedIntendedId =>
        /\ "Mac-F2218EC8Mac-F2218FA9" \in platform_support_values_A
        /\ \E x \in platform_support_values_A_separated :
              \A id \in platform_support_values_A_separated : Rejected(id) <=> id = x

\* C11 (amended): the table holds that entry, and exactly two ids of the
\* intended table are rejected on a host that is no virtual machine,
\* "Mac-F2218EC8" and "Mac-F2218FA9"; every other one is accepted.
C11_BothJoinedIdsRejected ==
    CheckedIntendedId =>
        /\ "Mac-F2218EC8Mac-F2218FA9" \in platform_support_values_A
        /\ ~frame["board_id_passed"] <=> facts["board"] \in {"Mac-F2218EC8", "Mac-F2218FA9"}
        /\ Cardinality({id \in platform_support_values_A_separated : Rejected(id)}) = 2
        /\ Cardinality(platform_support_values_A_separated \ platform_support_values_A) = 2

\* C11 witness: the check has rejected "Mac-F2218EC8", the first half of the
\* joined entry
C11_Witness ==
    /\ CheckedIntendedId
    /\ facts["board"] = "Mac-F2218EC8"
    /\ ~frame["board_id_passed"]
    /\ Logged("Board ID", <<"\"", "Mac-F2218EC8", "\" is not supported">>, "Failed")

====
